---- MODULE Spec2Model ----
(***************************************************************************)
(* Plant Sage: the PlantIdentifier React component                         *)
(* (src/app/components/PlantIdentifier.tsx).  The other version of the     *)
(* component in the repository has the same identifyPlant and              *)
(* parseResponse, line for line.                                           *)
(*                                                                         *)
(* Strings of the response text are sequences of one-character strings, so *)
(* that split, join and trim are computed character by character as the    *)
(* code computes them.  A code point that cannot be written in a string   *)
(* of this language is the one element "U+XXXX".  A nullable value is     *)
(* <<>> (null) or <<v>>.                                                   *)
(***************************************************************************)
EXTENDS Integers, Sequences, FiniteSets, TLC

(***************************************************************************)
(* Bounds of the model.                                                    *)
(***************************************************************************)
\* identifyPlant invocations (uploads and captures) in one run
MaxRequests == 2
\* getUserMedia calls (clicks on "Use Camera") in one run
MaxStreams == 2
\* tracks of one MediaStream
MaxTracks == 2
\* lines of a response text handed to parseResponse
MaxLines == 4

(***************************************************************************)
(* String primitives of the JavaScript runtime used by parseResponse.      *)
(***************************************************************************)
\* The code points String.prototype.trim removes: WhiteSpace (TAB, VT, FF,
\* SP, NBSP, ZWNBSP and the category Zs) and LineTerminator (LF, CR, LS, PS)
\* of ECMAScript.
IsWhitespace(c) ==
    c \in {"\t", "U+000B", "\f", " ", "U+00A0", "U+FEFF",
           "U+1680", "U+2000", "U+2001", "U+2002", "U+2003", "U+2004",
           "U+2005", "U+2006", "U+2007", "U+2008", "U+2009", "U+200A",
           "U+202F", "U+205F", "U+3000",
           "\n", "\r", "U+2028", "U+2029"}

RECURSIVE TrimStart(_)
TrimStart(s) ==
    IF s # <<>> /\ IsWhitespace(Head(s)) THEN TrimStart(Tail(s)) ELSE s

RECURSIVE TrimEnd(_)
TrimEnd(s) ==
    IF s # <<>> /\ IsWhitespace(s[Len(s)])
    THEN TrimEnd(SubSeq(s, 1, Len(s) - 1))
    ELSE s

\* String.prototype.trim
Trim(s) == TrimEnd(TrimStart(s))

\* String.prototype.indexOf for a one-character needle, 1-based; 0 if absent.
IndexOf(s, c) ==
    IF \E i \in 1..Len(s) : s[i] = c
    THEN CHOOSE i \in 1..Len(s) : s[i] = c /\ \A j \in 1..(i - 1) : s[j] # c
    ELSE 0

\* String.prototype.split for a one-character separator: always at least one
\* piece; a string without the separator is returned whole.
RECURSIVE Split(_, _)
Split(s, sep) ==
    LET i == IndexOf(s, sep)
    IN  IF i = 0
        THEN <<s>>
        ELSE <<SubSeq(s, 1, i - 1)>> \o Split(SubSeq(s, i + 1, Len(s)), sep)

\* Array.prototype.join for a one-character separator.
RECURSIVE Join(_, _)
Join(parts, sep) ==
    IF parts = <<>> THEN <<>>
    ELSE IF Len(parts) = 1 THEN parts[1]
    ELSE parts[1] \o <<sep>> \o Join(Tail(parts), sep)

(***************************************************************************)
(* parseResponse (PlantIdentifier.tsx 124-149).                            *)
(***************************************************************************)
CommonNameLabel ==
    <<"C", "o", "m", "m", "o", "n", " ", "N", "a", "m", "e">>
AlternativeNameLabel ==
    <<"A", "l", "t", "e", "r", "n", "a", "t", "i", "v", "e", " ", "N", "a", "m", "e">>
ScientificNameLabel ==
    <<"S", "c", "i", "e", "n", "t", "i", "f", "i", "c", " ", "N", "a", "m", "e">>
DescriptionLabel ==
    <<"D", "e", "s", "c", "r", "i", "p", "t", "i", "o", "n">>
NoneLiteral ==
    <<"N", "o", "n", "e">>

\* A field of Partial<PlantInfo> that was never assigned, and the null stored
\* for an alternative name of "None".  Neither is a character sequence.
Undefined == <<"undefined">>
NullValue == <<"null">>

\* const info: Partial<PlantInfo> = {}
EmptyInfo ==
    [name |-> Undefined, alternativeName |-> Undefined,
     scientificName |-> Undefined, description |-> Undefined]

\* const [key, ...valueParts] = line.split(':'); key.trim()
LineKey(line) == Trim(Split(line, ":")[1])

\* Mutant: the value is not trimmed.
LineValueUntrimmed(line) == Join(Tail(Split(line, ":")), ":")

\* Mutant: const [key, value] = line.split(':') -- only the piece between the
\* first and the second colon is kept.
LineValueFirstPart(line) ==
    LET parts == Split(line, ":")
    IN  IF Len(parts) >= 2 THEN Trim(parts[2]) ELSE <<>>

\* const value = valueParts.join(':').trim()
LineValue(line) == Trim(Join(Tail(Split(line, ":")), ":"))

\* The body of lines.forEach: the switch on key.trim().
ParseLine(info, line) ==
    LET key == LineKey(line)
        value == LineValue(line)
    IN  IF key = CommonNameLabel THEN [info EXCEPT !.name = value]
        ELSE IF key = AlternativeNameLabel
        THEN [info EXCEPT !.alternativeName =
                            IF value # NoneLiteral THEN value ELSE NullValue]
        ELSE IF key = ScientificNameLabel
        THEN [info EXCEPT !.scientificName = value]
        ELSE IF key = DescriptionLabel THEN [info EXCEPT !.description = value]
        ELSE info

RECURSIVE ParseLines(_, _)
ParseLines(info, lines) ==
    IF lines = <<>> THEN info
    ELSE ParseLines(ParseLine(info, Head(lines)), Tail(lines))

\* parseResponse(text)
ParseResponse(text) == ParseLines(EmptyInfo, Split(text, "\n"))

(***************************************************************************)
(* Response texts.                                                         *)
(***************************************************************************)
LineCommon ==
    <<"C", "o", "m", "m", "o", "n", " ", "N", "a", "m", "e", ":", " ", "P", "o", "t", "h", "o", "s">>
LineAltNone ==
    <<"A", "l", "t", "e", "r", "n", "a", "t", "i", "v", "e", " ", "N", "a", "m", "e", ":", " ", "N", "o", "n", "e">>
LineAltIvy ==
    <<"A", "l", "t", "e", "r", "n", "a", "t", "i", "v", "e", " ", "N", "a", "m", "e", ":", " ", "D", "e", "v", "i", "l", "'", "s", " ", "I", "v", "y">>
LineSci ==
    <<"S", "c", "i", "e", "n", "t", "i", "f", "i", "c", " ", "N", "a", "m", "e", ":", "E", "p", "i", "p", "r", "e", "m", "n", "u", "m", " ", "a", "u", "r", "e", "u", "m">>
LineDescColon ==
    <<"D", "e", "s", "c", "r", "i", "p", "t", "i", "o", "n", ":", " ", "G", "r", "o", "w", "s", " ", "t", "o", " ", "2", ":", " ", "h", "e", "i", "g", "h", "t", "s", " ", "v", "a", "r", "y">>
LineDescPadded ==
    <<"\t", "D", "e", "s", "c", "r", "i", "p", "t", "i", "o", "n", " ", ":", "\f", " ", "A", " ", "t", "r", "a", "i", "l", "i", "n", "g", " ", "v", "i", "n", "e", ".", "U+00A0", "\r">>
LineDescBare ==
    <<"D", "e", "s", "c", "r", "i", "p", "t", "i", "o", "n">>
LineNote ==
    <<"N", "o", "t", "e", ":", " ", "h", "a", "r", "d", "y">>
LineBlank ==
    <<>>
LineLower ==
    <<"c", "o", "m", "m", "o", "n", " ", "n", "a", "m", "e", ":", " ", "i", "v", "y">>

\* The lines a response text of the parser's specification is built from.
LineChoices ==
    {LineCommon, LineAltNone, LineAltIvy, LineSci, LineDescColon,
     LineDescPadded, LineDescBare, LineNote, LineBlank, LineLower}

\* A reply in the format the prompt asks for: one line per label, in the
\* prompt's order.
FormattedReplies ==
    {<<LineCommon, a, LineSci, d>> :
        a \in {LineAltNone, LineAltIvy}, d \in {LineDescColon, LineDescPadded}}

\* A formatted reply with one more line before, between or after its lines.
FormattedRepliesWithExtraLine ==
    {SubSeq(ls, 1, p) \o <<l>> \o SubSeq(ls, p + 1, Len(ls)) :
        ls \in FormattedReplies, p \in 0..4, l \in LineChoices}

\* The response texts handed to parseResponse: up to MaxLines lines joined by
\* line feeds (no line at all is the empty text), and the formatted replies
\* with a further line.
ResponseTexts ==
    {Join(ls, "\n") :
        ls \in UNION {[1..n -> LineChoices] : n \in 0..MaxLines}
               \cup FormattedRepliesWithExtraLine}

\* The two replies of the inference service in the component's runs.
TextPothos ==
    <<"C", "o", "m", "m", "o", "n", " ", "N", "a", "m", "e", ":", " ", "P", "o", "t", "h", "o", "s", "\n", "A", "l", "t", "e", "r", "n", "a", "t", "i", "v", "e", " ", "N", "a", "m", "e", ":", " ", "N", "o", "n", "e", "\n", "S", "c", "i", "e", "n", "t", "i", "f", "i", "c", " ", "N", "a", "m", "e", ":", " ", "E", "p", "i", "p", "r", "e", "m", "n", "u", "m", " ", "a", "u", "r", "e", "u", "m", "\n", "D", "e", "s", "c", "r", "i", "p", "t", "i", "o", "n", ":", " ", "A", " ", "t", "r", "a", "i", "l", "i", "n", "g", " ", "v", "i", "n", "e", ".">>
TextFern ==
    <<"C", "o", "m", "m", "o", "n", " ", "N", "a", "m", "e", ":", " ", "F", "e", "r", "n", "\n", "D", "e", "s", "c", "r", "i", "p", "t", "i", "o", "n", ":", " ", "S", "h", "a", "d", "e", ":", " ", "m", "o", "i", "s", "t", " ", "s", "o", "i", "l">>
ServiceTexts == {TextPothos, TextFern}

\* The messages of the errors thrown inside identifyPlant's try block.
ServiceErrors == {"Failed to fetch", "API key not valid"}

(***************************************************************************)
(* State of the component.                                                 *)
(***************************************************************************)
VARIABLES
    selectedImage,  \* useState<string | null>: <<>> or <<url>>
    plantInfo,      \* useState<PlantInfo | null>: <<>> or <<record>>
    loading,        \* useState(false)
    error,          \* useState<string | null>: <<>> or <<message>>
    showCamera,     \* useState(false)
    srcObject,      \* videoRef.current.srcObject: a stream id, 0 when unset
    streams,        \* MediaStreams obtained: per stream its tracks' readyState
    cameraCalls,    \* getUserMedia promises, one per startCamera invocation
    fetches,        \* fetch(imageDataUrl) chains started by capturePhoto
    requests,       \* identifyPlant invocations, in the order they started
    text,           \* argument of a direct parseResponse call
    parsed,         \* its return value: <<>> before the call, <<record>> after
    acquisitions,   \* images acquired: files selected and photos captured
    generateContentCalls  \* calls of model.generateContent issued

displayVars == <<selectedImage, plantInfo, loading, error>>
cameraVars  == <<showCamera, srcObject, streams, cameraCalls, fetches>>
parseVars   == <<text, parsed>>
callVars    == <<acquisitions, generateContentCalls>>
vars == <<selectedImage, plantInfo, loading, error, showCamera, srcObject,
          streams, cameraCalls, fetches, requests, text, parsed,
          acquisitions, generateContentCalls>>

Null == <<>>
Some(v) == <<v>>

\* setError("Unable to access camera. ...") of startCamera's catch block
CameraErrorMessage ==
    "Unable to access camera. Please make sure you've granted the necessary permissions."

\* `Error identifying plant: ${error.message}` of identifyPlant's catch block
IdentifyErrorMessage(m) == "Error identifying plant: " \o m

\* The <video ref={videoRef}> element is rendered only under showCamera, so
\* videoRef.current is the element while showCamera holds and null otherwise.
VideoRefCurrent == showCamera

NoResult == [ok |-> FALSE, text |-> <<>>, message |-> ""]

\* Parsed replies of the inference service.
ParsedReply == [t \in ServiceTexts |-> ParseResponse(t)]

\* The component after construction (the useState / useRef initial values).
ComponentInit ==
    /\ selectedImage = Null
    /\ plantInfo = Null
    /\ loading = FALSE
    /\ error = Null
    /\ showCamera = FALSE
    /\ srcObject = 0
    /\ streams = <<>>
    /\ cameraCalls = <<>>
    /\ fetches = <<>>
    /\ requests = <<>>
    /\ acquisitions = 0
    /\ generateContentCalls = 0

Init ==
    /\ ComponentInit
    /\ text = <<>>
    /\ parsed = Null

(***************************************************************************)
(* identifyPlant (PlantIdentifier.tsx 80-122).                             *)
(***************************************************************************)
\* identifyPlant invocations that have not reached the end of their finally
\* block.
PendingRequests == {i \in 1..Len(requests) : requests[i].pc # "done"}

\* The synchronous prefix of identifyPlant(file): setLoading(true),
\* setError(null), then the call suspends at await file.arrayBuffer().
\* plantInfo is not assigned here.
IdentifyPlantStart(source, stream) ==
    /\ loading' = TRUE
    /\ error' = Null
    /\ requests' = Append(requests,
                          [source |-> source, stream |-> stream,
                           pc |-> "arrayBuffer", called |-> FALSE,
                           supersedes |-> PendingRequests # {},
                           result |-> NoResult])
    /\ UNCHANGED plantInfo

\* Captured frames whose fetch(imageDataUrl) chain has not yet reached
\* identifyPlant.
PendingFetches ==
    Cardinality({f \in 1..Len(fetches) : fetches[f].pc = "fetch"})

\* handleImageUpload with a file chosen; the file input is rendered only
\* while the camera preview is not shown.
HandleImageUpload ==
    /\ ~showCamera
    /\ Len(requests) + PendingFetches < MaxRequests
    /\ selectedImage' = Some("blob:object-url")
    /\ IdentifyPlantStart("upload", 0)
    /\ acquisitions' = acquisitions + 1
    /\ UNCHANGED <<cameraVars, parseVars, generateContentCalls>>

\* await file.arrayBuffer() resolves: model.generateContent is called.
ArrayBufferResolved(i) ==
    /\ requests[i].pc = "arrayBuffer"
    /\ requests' = [requests EXCEPT ![i].pc = "generateContent",
                                    ![i].called = TRUE]
    /\ generateContentCalls' = generateContentCalls + 1
    /\ UNCHANGED <<displayVars, cameraVars, parseVars, acquisitions>>

\* generateContent and response.text() succeed with text t: parseResponse,
\* setPlantInfo(parsedInfo), finally setLoading(false).
GenerateContentResolved(i, t) ==
    /\ requests[i].pc = "generateContent"
    /\ plantInfo' = Some(ParsedReply[t])
    /\ loading' = FALSE
    /\ requests' = [requests EXCEPT ![i].pc = "done",
                                    ![i].result = [ok |-> TRUE, text |-> t,
                                                   message |-> ""]]
    /\ UNCHANGED <<selectedImage, error, cameraVars, parseVars, callVars>>

\* The awaits of the try block that can reject: the inference call, and the
\* read of a selected file (a file removed or changed on disk after its
\* selection).  The bytes of a captured frame are held in memory.
CanReject(i) ==
    \/ requests[i].pc = "generateContent"
    \/ requests[i].pc = "arrayBuffer" /\ requests[i].source = "upload"

\* Mutant: the catch block issues the inference call once more when the
\* failed await was the call itself.
IdentifyPlantCatchRetries(i, m) ==
    /\ CanReject(i)
    /\ error' = Some(IdentifyErrorMessage(m))
    /\ plantInfo' = Null
    /\ loading' = FALSE
    /\ requests' = [requests EXCEPT ![i].pc = "done",
                                    ![i].result = [ok |-> FALSE, text |-> <<>>,
                                                   message |-> m]]
    /\ generateContentCalls' =
         IF requests[i].called THEN generateContentCalls + 1
         ELSE generateContentCalls
    /\ UNCHANGED <<selectedImage, cameraVars, parseVars, acquisitions>>

\* Any await of the try block rejects with message m: the catch block's
\* setError and setPlantInfo(null), finally setLoading(false).
IdentifyPlantCatch(i, m) ==
    /\ CanReject(i)
    /\ error' = Some(IdentifyErrorMessage(m))
    /\ plantInfo' = Null
    /\ loading' = FALSE
    /\ requests' = [requests EXCEPT ![i].pc = "done",
                                    ![i].result = [ok |-> FALSE, text |-> <<>>,
                                                   message |-> m]]
    /\ UNCHANGED <<selectedImage, cameraVars, parseVars, callVars>>

(***************************************************************************)
(* startCamera (40-51) and capturePhoto (53-78).                           *)
(***************************************************************************)
\* A click on "Use Camera" (rendered while the preview is not shown):
\* startCamera suspends at await getUserMedia.
StartCamera ==
    /\ ~showCamera
    /\ Len(cameraCalls) < MaxStreams
    /\ cameraCalls' = Append(cameraCalls, "pending")
    /\ UNCHANGED <<displayVars, showCamera, srcObject, streams, fetches,
                   requests, parseVars, callVars>>

\* getUserMedia resolves with a stream of n live tracks.  The stream is
\* attached and the preview shown only if videoRef.current is set.
GetUserMediaResolved(c, n) ==
    /\ cameraCalls[c] = "pending"
    /\ cameraCalls' = [cameraCalls EXCEPT ![c] = "resolved"]
    /\ streams' = Append(streams, [k \in 1..n |-> "live"])
    /\ IF VideoRefCurrent
       THEN /\ srcObject' = Len(streams) + 1
            /\ showCamera' = TRUE
       ELSE UNCHANGED <<srcObject, showCamera>>
    /\ UNCHANGED <<displayVars, fetches, requests, parseVars, callVars>>

\* Mutant: the rejection is reported but startCamera goes on to show the
\* preview.
GetUserMediaRejectedShowsPreview(c) ==
    /\ cameraCalls[c] = "pending"
    /\ cameraCalls' = [cameraCalls EXCEPT ![c] = "rejected"]
    /\ error' = Some(CameraErrorMessage)
    /\ showCamera' = TRUE
    /\ UNCHANGED <<selectedImage, plantInfo, loading, srcObject,
                   streams, fetches, requests, parseVars, callVars>>

\* getUserMedia rejects (permission denied, no device): the catch block.
GetUserMediaRejected(c) ==
    /\ cameraCalls[c] = "pending"
    /\ cameraCalls' = [cameraCalls EXCEPT ![c] = "rejected"]
    /\ error' = Some(CameraErrorMessage)
    /\ UNCHANGED <<selectedImage, plantInfo, loading, showCamera, srcObject,
                   streams, fetches, requests, parseVars, callVars>>

\* tracks.forEach(track => track.stop())
StopTracks(tracks) == [k \in 1..Len(tracks) |-> "ended"]

\* A click on "Capture Photo" (rendered with the preview): the frame is
\* drawn, setSelectedImage, setShowCamera(false); then, with a stream
\* attached, every track of it is stopped and the fetch of the data URL is
\* started.  With no stream attached (srcObject null) stream.getTracks() of
\* line 66 throws after the two setters: no track is stopped and no fetch
\* is started.  The <video> element is unmounted by the re-render.
CapturePhoto ==
    /\ showCamera
    /\ VideoRefCurrent
    /\ Len(requests) + PendingFetches < MaxRequests
    /\ selectedImage' = Some("data:image/jpeg")
    /\ showCamera' = FALSE
    /\ IF srcObject # 0
       THEN /\ streams' = [streams EXCEPT ![srcObject] = StopTracks(@)]
            /\ srcObject' = 0
            /\ fetches' = Append(fetches,
                                 [stream |-> srcObject, pc |-> "fetch"])
            /\ acquisitions' = acquisitions + 1
       ELSE UNCHANGED <<streams, srcObject, fetches, acquisitions>>
    /\ UNCHANGED <<plantInfo, loading, error, cameraCalls, requests, parseVars,
                   generateContentCalls>>

\* fetch(imageDataUrl).then(res => res.blob()).then(blob => ...) reaches its
\* last callback: identifyPlant(file) for the captured frame.
CaptureFetchResolved(f) ==
    /\ fetches[f].pc = "fetch"
    /\ fetches' = [fetches EXCEPT ![f].pc = "done"]
    /\ IdentifyPlantStart("capture", fetches[f].stream)
    /\ UNCHANGED <<selectedImage, showCamera, srcObject, streams, cameraCalls,
                   parseVars, callVars>>

(***************************************************************************)
(* The component from its construction.  showCamera is set only by         *)
(* startCamera under videoRef.current, which is set only under showCamera: *)
(* from the constructed component the preview is never shown, and the      *)
(* capture button, rendered with the preview, cannot be clicked:           *)
(* CapturePhoto and CaptureFetchResolved are no steps of the component.    *)
(***************************************************************************)
Next ==
    \/ HandleImageUpload
    \/ \E i \in 1..Len(requests) : ArrayBufferResolved(i)
    \/ \E i \in 1..Len(requests), t \in ServiceTexts :
          GenerateContentResolved(i, t)
    \/ \E i \in 1..Len(requests), m \in ServiceErrors : IdentifyPlantCatch(i, m)
    \/ StartCamera
    \/ \E c \in 1..Len(cameraCalls), n \in 1..MaxTracks :
          GetUserMediaResolved(c, n)
    \/ \E c \in 1..Len(cameraCalls) : GetUserMediaRejected(c)

Spec == Init /\ [][Next]_vars

\* The preview is never shown and no frame is ever captured.
PreviewNeverShown == ~showCamera /\ srcObject = 0 /\ fetches = <<>>

(***************************************************************************)
(* parseResponse on its own: the text is any of ResponseTexts.             *)
(***************************************************************************)
InitParse ==
    /\ ComponentInit
    /\ text \in ResponseTexts
    /\ parsed = Null

ParseResponseCall ==
    /\ parsed = Null
    /\ parsed' = Some(ParseResponse(text))
    /\ UNCHANGED <<displayVars, cameraVars, requests, text, callVars>>

NextParse == ParseResponseCall

SpecParse == InitParse /\ [][NextParse]_vars

(***************************************************************************)
(* Properties of the view state.                                           *)
(***************************************************************************)
\* The parts of the view that are rendered: the loading indicator, the error
\* banner and the result card.
ActiveViews ==
    (IF loading THEN {"loading"} ELSE {})
      \cup (IF error # Null THEN {"error"} ELSE {})
      \cup (IF plantInfo # Null THEN {"result"} ELSE {})

\* C1: in every reachable state at most one of loading, error and result is
\* active (none of them is the idle state), so exactly one of the four view
\* states idle, loading, error, result is displayed.
C1_ExactlyOneViewState == Cardinality(ActiveViews) <= 1

\* C2: a step that starts identifyPlant while an error or a record is
\* displayed leaves both error and plantInfo null.
C2_PriorOutcomeClearedOnStart ==
    [][(/\ Len(requests') = Len(requests) + 1
        /\ (error # Null \/ plantInfo # Null))
       => (error' = Null /\ plantInfo' = Null)]_vars

\* C3: in every reachable state with a non-null error, plantInfo is null.
C3_NoRecordAlongsideError == (error # Null) => (plantInfo = Null)

\* What the view shows of request i's outcome once it is the only outcome
\* displayed: its record and no identification error, or its error message
\* and no record.
ShowsOutcomeOf(i) ==
    LET r == requests[i].result
    IN  IF r.ok
        THEN /\ plantInfo = Some(ParseResponse(r.text))
             /\ error \in {Null, Some(CameraErrorMessage)}
        ELSE /\ plantInfo = Null
             /\ error = Some(IdentifyErrorMessage(r.message))

\* C4: when the most recently started request was started while an earlier
\* one was pending, then once every request has completed the displayed
\* plantInfo and identification error are the outcome of that most recently
\* started request.
C4_LatestAttemptDisplayed ==
    (/\ requests # <<>>
     /\ PendingRequests = {}
     /\ requests[Len(requests)].supersedes)
    => ShowsOutcomeOf(Len(requests))

(***************************************************************************)
(* Properties of the camera.                                               *)
(***************************************************************************)
HasLiveTrack(s) == \E k \in 1..Len(streams[s]) : streams[s][k] = "live"

\* C5: in every reachable state, a stream obtained by startCamera that still
\* has a live track implies that the preview is shown.
C5_CameraHeldOnlyWhilePreviewShown ==
    \A s \in 1..Len(streams) : HasLiveTrack(s) => showCamera

\* C7: a step in which getUserMedia rejects sets the camera error message,
\* leaves showCamera false, obtains and attaches no stream, and starts no
\* fetch of a frame and no identifyPlant call.
C7_RejectedCameraDoesNotProceed ==
    [][\A c \in 1..Len(cameraCalls) :
         (cameraCalls[c] = "pending" /\ cameraCalls'[c] = "rejected")
         => (/\ error' = Some(CameraErrorMessage)
             /\ ~showCamera /\ ~showCamera'
             /\ streams' = streams
             /\ srcObject' = srcObject
             /\ fetches' = fetches
             /\ requests' = requests)]_vars

\* getUserMedia was rejected: the camera error is displayed, the preview is
\* not shown, no stream was obtained and no request was issued.
C7_Witness ==
    /\ \E c \in 1..Len(cameraCalls) : cameraCalls[c] = "rejected"
    /\ error = Some(CameraErrorMessage)
    /\ ~showCamera
    /\ streams = <<>>
    /\ requests = <<>>

(***************************************************************************)
(* Properties of parseResponse.  The text after the first colon is taken   *)
(* here by position, not by split and join.                                *)
(***************************************************************************)
Labels ==
    {CommonNameLabel, AlternativeNameLabel, ScientificNameLabel,
     DescriptionLabel}

\* The field of the record that a label names.
FieldOf(info, label) ==
    IF label = CommonNameLabel THEN info.name
    ELSE IF label = AlternativeNameLabel THEN info.alternativeName
    ELSE IF label = ScientificNameLabel THEN info.scientificName
    ELSE info.description

LinesOf(t) == Split(t, "\n")

HasColon(line) == IndexOf(line, ":") # 0

\* The trimmed text before the first colon (the whole line if it has none).
LabelOf(line) ==
    IF HasColon(line)
    THEN Trim(SubSeq(line, 1, IndexOf(line, ":") - 1))
    ELSE Trim(line)

\* The text after the first colon (empty if the line has none).
TextAfterFirstColon(line) ==
    IF HasColon(line)
    THEN SubSeq(line, IndexOf(line, ":") + 1, Len(line))
    ELSE <<>>

ColonCount(s) == Cardinality({k \in 1..Len(s) : s[k] = ":"})

\* The lines, of the sequence ls of lines, that carry the label.
LabeledLines(ls, label) == {k \in 1..Len(ls) : LabelOf(ls[k]) = label}

\* The last line of ls that carries the label.
LastLabeledLine(ls, label) ==
    LET ks == LabeledLines(ls, label)
    IN  ls[CHOOSE k \in ks : \A j \in ks : j <= k]

\* The "Label: value" lines of ls for the label: the lines with a colon
\* whose trimmed text before the first colon is the label.
LabeledValueLines(ls, label) ==
    {k \in 1..Len(ls) :
        HasColon(ls[k])
        /\ Trim(SubSeq(ls[k], 1, IndexOf(ls[k], ":") - 1)) = label}

\* The lines of ls that are a label alone, without a colon.
BareLabelLines(ls) ==
    {k \in 1..Len(ls) : ~HasColon(ls[k]) /\ Trim(ls[k]) \in Labels}

\* ls contains all four labeled lines: each label has its "Label: value"
\* line, one only, and no line of ls is a label alone.  Any other lines may
\* stand before, between and after them.
ContainsAllFourLabels(ls) ==
    /\ \A label \in Labels : Cardinality(LabeledValueLines(ls, label)) = 1
    /\ BareLabelLines(ls) = {}

\* The line of ls corresponding to the label, in a text with all four.
CorrespondingLine(ls, label) ==
    ls[CHOOSE k \in LabeledValueLines(ls, label) : TRUE]

IsIgnorable(line) ==
    \/ ~HasColon(line)
    \/ Trim(SubSeq(line, 1, IndexOf(line, ":") - 1)) \notin Labels

InsertAt(ls, p, l) == SubSeq(ls, 1, p) \o <<l>> \o SubSeq(ls, p + 1, Len(ls))
RemoveAt(ls, k) == SubSeq(ls, 1, k - 1) \o SubSeq(ls, k + 1, Len(ls))

\* C9: inserting an ignorable line at any position of the text, or removing
\* one, leaves the record returned by parseResponse unchanged.
C9_IgnorableLinesContributeNothing ==
    parsed # Null
    => /\ \A l \in {c \in LineChoices : IsIgnorable(c)} :
            \A p \in 0..Len(LinesOf(text)) :
               ParseResponse(Join(InsertAt(LinesOf(text), p, l), "\n"))
                 = parsed[1]
       /\ \A k \in 1..Len(LinesOf(text)) :
            IsIgnorable(LinesOf(text)[k])
            => ParseResponse(Join(RemoveAt(LinesOf(text), k), "\n"))
                 = parsed[1]

\* C10: a line with a recognized label and a colon inside its value stores
\* the whole trimmed text after the first colon, the later colons in place;
\* and the returned record holds it when the line is the last of its label.
C10_OnlyFirstColonSplits ==
    LET ls == LinesOf(text)
    IN  parsed # Null
        => /\ \A k \in 1..Len(ls) :
                (LabelOf(ls[k]) \in Labels /\ ColonCount(ls[k]) >= 2)
                => LET stored == FieldOf(ParseLine(EmptyInfo, ls[k]),
                                         LabelOf(ls[k]))
                   IN  /\ stored = Trim(TextAfterFirstColon(ls[k]))
                       /\ ColonCount(stored) = ColonCount(ls[k]) - 1
           /\ \A label \in Labels :
                (/\ LabeledLines(ls, label) # {}
                 /\ ColonCount(LastLabeledLine(ls, label)) >= 2)
                => FieldOf(parsed[1], label)
                     = Trim(TextAfterFirstColon(LastLabeledLine(ls, label)))

\* "Description: Grows to 2: heights vary" has been parsed to the
\* description "Grows to 2: heights vary".
C10_Witness ==
    /\ parsed # Null
    /\ LabeledLines(LinesOf(text), DescriptionLabel) # {}
    /\ LastLabeledLine(LinesOf(text), DescriptionLabel) = LineDescColon
    /\ parsed[1].description =
         <<"G", "r", "o", "w", "s", " ", "t", "o", " ", "2", ":", " ",
           "h", "e", "i", "g", "h", "t", "s", " ", "v", "a", "r", "y">>

(***************************************************************************)
(* Properties of the inference calls.                                      *)
(***************************************************************************)
\* No identifyPlant call and no fetch of a captured frame is under way.
Quiescent == PendingRequests = {} /\ PendingFetches = 0

\* The identifyPlant invocations whose file could not be read: they ended
\* in the catch block before model.generateContent was called.
ReadFailures ==
    {i \in 1..Len(requests) : requests[i].pc = "done" /\ ~requests[i].called}

\* C11 as stated: once nothing is under way, the number of inference calls
\* issued equals the number of acquisitions.
C11_OneCallPerAcquisition ==
    Quiescent => generateContentCalls = acquisitions

\* C11 amended: the inference calls never outnumber the acquisitions, each
\* identifyPlant invocation has issued one call if its file was read and
\* none otherwise (no call is repeated), and once nothing is under way the
\* calls are as many as the acquisitions whose file was read.
C11_AtMostOneCallPerAcquisition ==
    /\ generateContentCalls <= acquisitions
    /\ generateContentCalls
         = Cardinality({i \in 1..Len(requests) : requests[i].called})
    /\ Quiescent
       => generateContentCalls = acquisitions - Cardinality(ReadFailures)

\* Two files were selected, one inference call was issued for each, one of
\* the calls failed, and nothing is under way: two calls for two
\* acquisitions.
C11_Witness ==
    /\ Quiescent
    /\ acquisitions = 2
    /\ generateContentCalls = 2
    /\ \E i \in 1..Len(requests) :
          requests[i].called /\ ~requests[i].result.ok

\* C12: in every reachable state, loading is true exactly when some
\* identifyPlant call has started and not yet completed.
C12_LoadingTracksInFlight == loading <=> (PendingRequests # {})

====
